---- MODULE Spec2Model ----
(***************************************************************************)
(* Vulkan window bootstrap (sagedemage/vulkan_window): the swapchain       *)
(* selections of TriangleApplication and the Run sequence around them.     *)
(*                                                                         *)
(* A uint32_t is the record [hi, lo] of its two 16-bit halves, standing    *)
(* for hi * 2^16 + lo: TLC's integers end at 2^31 - 1, and the code's      *)
(* sentinel is 2^32 - 1.                                                   *)
(***************************************************************************)
EXTENDS Integers, Sequences, FiniteSets, TLC

VARIABLES
    call,                   \* SpecSelect, SpecCalls: the one function invoked
    pc,                     \* the position of main / Run
    devices,                \* what vkEnumeratePhysicalDevices reported
    window,                 \* GLFWwindow* window
    windowShouldClose,      \* the close flag of the window
    instance,               \* VkInstance instance
    debugMessenger,         \* VkDebugUtilsMessengerEXT debugMessenger
    surface,                \* VkSurfaceKHR surface
    physicalDevice,         \* VkPhysicalDevice: an index of devices, 0 = VK_NULL_HANDLE
    device,                 \* VkDevice device
    graphicsQueue,          \* VkQueue graphicsQueue: the family it came from
    presentQueue,           \* VkQueue presentQueue: the family it came from
    swapChain,              \* VkSwapchainKHR swapChain
    swapChainImages,        \* std::vector<VkImage>
    swapChainImageViews,    \* std::vector<VkImageView>
    swapChainImageFormat,   \* VkFormat
    swapChainExtent,        \* VkExtent2D
    create_info,            \* the requests given to vkCreateSwapchainKHR, in order
    fbLog,                  \* the sizes glfwGetFramebufferSize returned, in order
    vkLog,                  \* the native creation calls made, each with its VkResult
    polled,                 \* the event the last glfwPollEvents delivered
    exception,              \* what() of the exception in flight
    stderr,                 \* the lines main wrote to std::cerr
    exitStatus,             \* what main returned
    destroyed               \* the destroy calls of CleanUp, in order

app == <<devices, window, windowShouldClose, instance, debugMessenger, surface,
         physicalDevice, device, graphicsQueue, presentQueue, swapChain,
         swapChainImages, swapChainImageViews, swapChainImageFormat,
         swapChainExtent, create_info, fbLog, vkLog, polled, exception,
         stderr, exitStatus, destroyed>>

vars == <<call, pc, app>>

(***************************************************************************)
(* Bounds of the model.                                                    *)
(***************************************************************************)
MaxFormats == 3     \* longest list of surface formats a device reports
MaxModes == 4       \* longest list of present modes a device reports
MaxDevices == 2     \* most physical devices enumerated
MaxImages == 2      \* most images the created swapchain reports

(***************************************************************************)
(* uint32_t arithmetic.                                                    *)
(***************************************************************************)
Half == 256 * 256

\* the uint32_t holding n, for 0 <= n < 2^31
U32(n) == [hi |-> n \div Half, lo |-> n % Half]

\* std::numeric_limits<uint32_t>::max()
UINT32_MAX == [hi |-> Half - 1, lo |-> Half - 1]

\* a < b on uint32_t
Lt(a, b) == a.hi < b.hi \/ (a.hi = b.hi /\ a.lo < b.lo)

Le(a, b) == ~Lt(b, a)

\* a + 1 on uint32_t: wraps to 0 at 2^32 - 1
Add1U32(a) ==
    IF a.lo = Half - 1
    THEN [hi |-> (a.hi + 1) % Half, lo |-> 0]
    ELSE [hi |-> a.hi, lo |-> a.lo + 1]

\* static_cast<uint32_t>(int): the value modulo 2^32
CastU32(i) == [hi |-> (i \div Half) % Half, lo |-> i % Half]

\* std::clamp(v, lo, hi) on uint32_t (lo <= hi, else undefined)
Clamp(v, lo, hi) == IF Lt(v, lo) THEN lo ELSE IF Lt(hi, v) THEN hi ELSE v

(***************************************************************************)
(* The values the selections range over.                                   *)
(***************************************************************************)
Formats == {"VK_FORMAT_B8G8R8A8_SRGB", "VK_FORMAT_B8G8R8A8_UNORM",
            "VK_FORMAT_R8G8B8A8_SRGB"}

ColorSpaces == {"VK_COLOR_SPACE_SRGB_NONLINEAR_KHR",
                "VK_COLOR_SPACE_EXTENDED_SRGB_LINEAR_EXT"}

\* VkSurfaceFormatKHR
SurfaceFormats == [format : Formats, colorSpace : ColorSpaces]

\* VkPresentModeKHR
PresentModes == {"VK_PRESENT_MODE_IMMEDIATE_KHR", "VK_PRESENT_MODE_MAILBOX_KHR",
                 "VK_PRESENT_MODE_FIFO_KHR", "VK_PRESENT_MODE_FIFO_RELAXED_KHR"}

\* sequences over S of length 0..n
SeqUpTo(S, n) == UNION {[1..k -> S] : k \in 0..n}

\* What availableFormats[0] yields on an empty vector: the read is out of
\* bounds, so it yields any format value, or the process dies.
Crashed == [format |-> "SIGSEGV", colorSpace |-> "SIGSEGV"]

OutOfBoundsReads == SurfaceFormats \cup {Crashed}

(***************************************************************************)
(* ChooseSwapSurfaceFormat                                                 *)
(***************************************************************************)
\* IsPreferredFormat comparing the format alone
IsPreferredFormat_FormatOnly(available_format) ==
    available_format.format = "VK_FORMAT_B8G8R8A8_SRGB"

IsPreferredFormat(available_format) ==
    /\ available_format.format = "VK_FORMAT_B8G8R8A8_SRGB"
    /\ available_format.colorSpace = "VK_COLOR_SPACE_SRGB_NONLINEAR_KHR"

\* the range-for loop from index i on: the index it returns at, 0 when it
\* runs off the end
RECURSIVE ScanFormats(_, _)
ScanFormats(availableFormats, i) ==
    IF i > Len(availableFormats) THEN 0
    ELSE IF IsPreferredFormat(availableFormats[i]) THEN i
    ELSE ScanFormats(availableFormats, i + 1)

\* ChooseSwapSurfaceFormat without the loop: always availableFormats[0]
ChooseSwapSurfaceFormat_NoScan(availableFormats, oob) ==
    IF Len(availableFormats) > 0 THEN availableFormats[1] ELSE oob

ChooseSwapSurfaceFormat(availableFormats, oob) ==
    LET i == ScanFormats(availableFormats, 1)
    IN  IF i # 0 THEN availableFormats[i]
        ELSE IF Len(availableFormats) > 0 THEN availableFormats[1]
        ELSE oob

(***************************************************************************)
(* ChooseSwapPresentMode                                                   *)
(***************************************************************************)
RECURSIVE ScanPresentModes(_, _)
ScanPresentModes(availablePresentModes, i) ==
    IF i > Len(availablePresentModes) THEN 0
    ELSE IF availablePresentModes[i] = "VK_PRESENT_MODE_MAILBOX_KHR" THEN i
    ELSE ScanPresentModes(availablePresentModes, i + 1)

\* ChooseSwapPresentMode falling back to the non-blocking IMMEDIATE mode
ChooseSwapPresentMode_ImmediateFallback(availablePresentModes) ==
    LET i == ScanPresentModes(availablePresentModes, 1)
    IN  IF i # 0 THEN availablePresentModes[i]
        ELSE "VK_PRESENT_MODE_IMMEDIATE_KHR"

\* ChooseSwapPresentMode falling back to the first reported mode
ChooseSwapPresentMode_FirstFallback(availablePresentModes) ==
    LET i == ScanPresentModes(availablePresentModes, 1)
    IN  IF i # 0 THEN availablePresentModes[i]
        ELSE IF Len(availablePresentModes) > 0 THEN availablePresentModes[1]
        ELSE "VK_PRESENT_MODE_FIFO_KHR"

ChooseSwapPresentMode(availablePresentModes) ==
    LET i == ScanPresentModes(availablePresentModes, 1)
    IN  IF i # 0 THEN availablePresentModes[i]
        ELSE "VK_PRESENT_MODE_FIFO_KHR"

(***************************************************************************)
(* ChooseSwapExtent.  framebuffer is what glfwGetFramebufferSize writes    *)
(* to its two int arguments; it is read only on the second path.           *)
(***************************************************************************)
\* the framebuffer asked for only with UINT32_MAX on both axes
QueriesFramebuffer_BothAxes(capabilities) ==
    /\ capabilities.currentExtent.width = UINT32_MAX
    /\ capabilities.currentExtent.height = UINT32_MAX

\* whether the call reaches glfwGetFramebufferSize
QueriesFramebuffer(capabilities) ==
    capabilities.currentExtent.width = UINT32_MAX

\* ChooseSwapExtent clamping the height into the width's bounds
ChooseSwapExtent_HeightByWidth(capabilities, framebuffer) ==
    IF ~QueriesFramebuffer(capabilities)
    THEN capabilities.currentExtent
    ELSE [width |-> Clamp(CastU32(framebuffer.width),
                          capabilities.minImageExtent.width,
                          capabilities.maxImageExtent.width),
          height |-> Clamp(CastU32(framebuffer.height),
                           capabilities.minImageExtent.width,
                           capabilities.maxImageExtent.width)]

ChooseSwapExtent(capabilities, framebuffer) ==
    IF ~QueriesFramebuffer(capabilities)
    THEN capabilities.currentExtent
    ELSE LET actual_extent == [width |-> CastU32(framebuffer.width),
                               height |-> CastU32(framebuffer.height)]
         IN  [width |-> Clamp(actual_extent.width,
                              capabilities.minImageExtent.width,
                              capabilities.maxImageExtent.width),
              height |-> Clamp(actual_extent.height,
                               capabilities.minImageExtent.height,
                               capabilities.maxImageExtent.height)]

(***************************************************************************)
(* The image count of CreateSwapChain.                                     *)
(***************************************************************************)
\* the image count without the extra image
ImageCount_NoExtra(capabilities) ==
    LET image_count == capabilities.minImageCount
    IN  IF /\ Lt(U32(0), capabilities.maxImageCount)
           /\ Lt(capabilities.maxImageCount, image_count)
        THEN capabilities.maxImageCount
        ELSE image_count

ImageCount(capabilities) ==
    LET image_count == Add1U32(capabilities.minImageCount)
    IN  IF /\ Lt(U32(0), capabilities.maxImageCount)
           /\ Lt(capabilities.maxImageCount, image_count)
        THEN capabilities.maxImageCount
        ELSE image_count

(***************************************************************************)
(* The program's constants and its state after construction.               *)
(***************************************************************************)
\* NDEBUG is defined right above the #ifndef, so the #else branch is taken
ENABLE_VALIDATION_LAYERS == TRUE

VALIDATION_LAYERS == <<"VK_LAYER_KHRONOS_validation">>

DEVICE_EXTENSIONS == <<"VK_KHR_swapchain">>

\* a null handle, and the handle a successful creation call stores
Null == "VK_NULL_HANDLE"

Handle == "handle"

\* std::optional<uint32_t>
Nullopt == [has_value |-> FALSE, value |-> 0]

Some(i) == [has_value |-> TRUE, value |-> i]

NoExtent == [width |-> U32(0), height |-> U32(0)]

\* the members as their default member initializers leave them
Constructed ==
    /\ devices = <<>>
    /\ window = Null
    /\ windowShouldClose = FALSE
    /\ instance = Null
    /\ debugMessenger = Null
    /\ surface = Null
    /\ physicalDevice = 0
    /\ device = Null
    /\ graphicsQueue = Nullopt
    /\ presentQueue = Nullopt
    /\ swapChain = Null
    /\ swapChainImages = <<>>
    /\ swapChainImageViews = <<>>
    /\ swapChainImageFormat = "VK_FORMAT_UNDEFINED"
    /\ swapChainExtent = NoExtent
    /\ create_info = <<>>
    /\ fbLog = <<>>
    /\ vkLog = <<>>
    /\ polled = "none"
    /\ exception = ""
    /\ stderr = <<>>
    /\ exitStatus = "running"
    /\ destroyed = <<>>

(***************************************************************************)
(* What the native API reports for a physical device.                      *)
(***************************************************************************)
QueueFamilyLists ==
    {<<[graphics |-> TRUE, present |-> FALSE]>>,
     <<[graphics |-> TRUE, present |-> TRUE]>>,
     <<[graphics |-> TRUE, present |-> FALSE],
       [graphics |-> FALSE, present |-> TRUE]>>}

ExtensionLists == {<<>>, <<"VK_KHR_swapchain">>}

\* a surface whose size the swapchain decides, no image count maximum
SupportUndefinedExtent ==
    [capabilities |->
        [minImageCount |-> U32(2), maxImageCount |-> U32(0),
         currentExtent |-> [width |-> UINT32_MAX, height |-> UINT32_MAX],
         minImageExtent |-> [width |-> U32(1), height |-> U32(1)],
         maxImageExtent |-> [width |-> U32(4096), height |-> U32(4096)]],
     formats |->
        <<[format |-> "VK_FORMAT_R8G8B8A8_SRGB",
           colorSpace |-> "VK_COLOR_SPACE_EXTENDED_SRGB_LINEAR_EXT"],
          [format |-> "VK_FORMAT_B8G8R8A8_SRGB",
           colorSpace |-> "VK_COLOR_SPACE_SRGB_NONLINEAR_KHR"]>>,
     presentModes |-> <<"VK_PRESENT_MODE_FIFO_KHR">>]

\* a surface of fixed size, the image count pinned
SupportFixedExtent ==
    [capabilities |->
        [minImageCount |-> U32(3), maxImageCount |-> U32(3),
         currentExtent |-> [width |-> U32(800), height |-> U32(600)],
         minImageExtent |-> [width |-> U32(800), height |-> U32(600)],
         maxImageExtent |-> [width |-> U32(800), height |-> U32(600)]],
     formats |->
        <<[format |-> "VK_FORMAT_B8G8R8A8_UNORM",
           colorSpace |-> "VK_COLOR_SPACE_SRGB_NONLINEAR_KHR"]>>,
     presentModes |-> <<"VK_PRESENT_MODE_FIFO_KHR",
                        "VK_PRESENT_MODE_MAILBOX_KHR">>]

SupportNoFormats ==
    [SupportFixedExtent EXCEPT !.formats = <<>>]

SupportNoPresentModes ==
    [SupportUndefinedExtent EXCEPT !.presentModes = <<>>]

SwapChainSupports == {SupportUndefinedExtent, SupportFixedExtent,
                      SupportNoFormats, SupportNoPresentModes}

\* a physical device: what the queries on it return
PhysicalDevices ==
    [queue_families : QueueFamilyLists,
     available_extensions : ExtensionLists,
     support : SwapChainSupports]

DeviceLists == SeqUpTo(PhysicalDevices, MaxDevices)

\* what vkEnumerateInstanceLayerProperties may report
LayerLists == {<<>>, <<"VK_LAYER_KHRONOS_validation">>,
               <<"VK_LAYER_LUNARG_api_dump">>,
               <<"VK_LAYER_LUNARG_api_dump", "VK_LAYER_KHRONOS_validation">>}

\* what glfwGetFramebufferSize may report
FramebufferSizes == {[width |-> 800, height |-> 600],
                     [width |-> 1920, height |-> 1080]}

VkResults == {"VK_SUCCESS", "VK_ERROR_INITIALIZATION_FAILED"}

(***************************************************************************)
(* The queries on a physical device.                                       *)
(***************************************************************************)
IsComplete(indices) ==
    indices.graphicsFamily.has_value /\ indices.presentFamily.has_value

\* the loop of FindQueueFamilies without its break
RECURSIVE ScanQueueFamilies_NoBreak(_, _, _)
ScanQueueFamilies_NoBreak(queue_families, i, indices) ==
    IF i >= Len(queue_families) THEN indices
    ELSE LET queue_family == queue_families[i + 1]
             g == IF queue_family.graphics
                  THEN [indices EXCEPT !.graphicsFamily = Some(i)]
                  ELSE indices
             p == IF queue_family.present
                  THEN [g EXCEPT !.presentFamily = Some(i)]
                  ELSE g
         IN  ScanQueueFamilies_NoBreak(queue_families, i + 1, p)

\* FindQueueFamilies scanning every family
FindQueueFamilies_NoBreak(d) ==
    ScanQueueFamilies_NoBreak(d.queue_families, 0,
                              [graphicsFamily |-> Nullopt,
                               presentFamily |-> Nullopt])

\* the loop of FindQueueFamilies from family i (0-based) on
RECURSIVE ScanQueueFamilies(_, _, _)
ScanQueueFamilies(queue_families, i, indices) ==
    IF i >= Len(queue_families) THEN indices
    ELSE LET queue_family == queue_families[i + 1]
             g == IF queue_family.graphics
                  THEN [indices EXCEPT !.graphicsFamily = Some(i)]
                  ELSE indices
             p == IF queue_family.present
                  THEN [g EXCEPT !.presentFamily = Some(i)]
                  ELSE g
         IN  IF IsComplete(p) THEN p
             ELSE ScanQueueFamilies(queue_families, i + 1, p)

FindQueueFamilies(d) ==
    ScanQueueFamilies(d.queue_families, 0,
                      [graphicsFamily |-> Nullopt, presentFamily |-> Nullopt])

CheckDeviceExtensionSupport(d) ==
    LET required_extensions ==
            {DEVICE_EXTENSIONS[k] : k \in DOMAIN DEVICE_EXTENSIONS}
            \ {d.available_extensions[k] : k \in DOMAIN d.available_extensions}
    IN  required_extensions = {}

\* the counts are nonzero exactly when the lists are filled
QuerySwapChainSupport(d) == d.support

\* IsDeviceSuitable querying the swapchain support of every device
QueriesSwapChainSupport_Always(d) == TRUE

\* whether IsDeviceSuitable calls QuerySwapChainSupport on the device
QueriesSwapChainSupport(d) == CheckDeviceExtensionSupport(d)

\* IsDeviceSuitable without the check of the swapchain support
IsDeviceSuitable_NoSwapChainCheck(d) ==
    IsComplete(FindQueueFamilies(d)) /\ CheckDeviceExtensionSupport(d)

\* IsDeviceSuitable asking for formats alone
IsDeviceSuitable_FormatsOnly(d) ==
    LET indices == FindQueueFamilies(d)
        extensions_supported == CheckDeviceExtensionSupport(d)
        swap_chain_adequate ==
            IF extensions_supported
            THEN QuerySwapChainSupport(d).formats # <<>>
            ELSE FALSE
    IN  IsComplete(indices) /\ extensions_supported /\ swap_chain_adequate

IsDeviceSuitable(d) ==
    LET indices == FindQueueFamilies(d)
        extensions_supported == CheckDeviceExtensionSupport(d)
        swap_chain_adequate ==
            IF QueriesSwapChainSupport(d)
            THEN /\ QuerySwapChainSupport(d).formats # <<>>
                 /\ QuerySwapChainSupport(d).presentModes # <<>>
            ELSE FALSE
    IN  IsComplete(indices) /\ extensions_supported /\ swap_chain_adequate

\* the loop of PickPhysicalDevice from device i (1-based) on: the device
\* it breaks at, 0 when none is suitable
RECURSIVE FirstSuitable(_, _)
FirstSuitable(ds, i) ==
    IF i > Len(ds) THEN 0
    ELSE IF IsDeviceSuitable(ds[i]) THEN i
    ELSE FirstSuitable(ds, i + 1)

\* the inner loop of CheckValidationLayerSupport from available layer j
\* (1-based) on: whether layer_name is found
RECURSIVE LayerFound(_, _, _)
LayerFound(layer_name, available_layers, j) ==
    IF j > Len(available_layers) THEN FALSE
    ELSE IF available_layers[j] = layer_name THEN TRUE
    ELSE LayerFound(layer_name, available_layers, j + 1)

\* the outer loop of CheckValidationLayerSupport from requested layer k
\* (1-based) on
RECURSIVE AllLayersFound(_, _)
AllLayersFound(k, available_layers) ==
    IF k > Len(VALIDATION_LAYERS) THEN TRUE
    ELSE IF ~LayerFound(VALIDATION_LAYERS[k], available_layers, 1) THEN FALSE
    ELSE AllLayersFound(k + 1, available_layers)

\* CheckValidationLayerSupport comparing with the first available layer
\* alone
CheckValidationLayerSupport_FirstLayerOnly(available_layers) ==
    \A k \in DOMAIN VALIDATION_LAYERS :
        /\ Len(available_layers) > 0
        /\ available_layers[1] = VALIDATION_LAYERS[k]

CheckValidationLayerSupport(available_layers) ==
    AllLayersFound(1, available_layers)

(***************************************************************************)
(* main and the steps of TriangleApplication::Run.                         *)
(***************************************************************************)
handles == <<window, instance, debugMessenger, surface>>

deviceVars == <<device, graphicsQueue, presentQueue>>

swapVars == <<swapChain, swapChainImages, swapChainImageFormat,
              swapChainExtent, create_info, fbLog>>

mainVars == <<stderr, exitStatus, destroyed>>

\* throw std::runtime_error(msg) with a handler inside Run that goes on to
\* CleanUp
Throw_CaughtInRun(msg) == pc' = "CleanUp" /\ exception' = msg

\* throw std::runtime_error(msg): nothing between the throw and main's
\* handler catches it
Throw(msg) == pc' = "catch" /\ exception' = msg

\* an entry of vkLog
Logged(name, result) == [call |-> name, result |-> result]

VkErrors == VkResults \ {"VK_SUCCESS"}

InitWindow ==
    /\ pc = "InitWindow"
    /\ \E w \in {Handle, Null} : window' = w
    /\ pc' = "CreateInstance"
    /\ UNCHANGED <<call, devices, windowShouldClose, polled, instance,
                   debugMessenger, surface, physicalDevice, deviceVars,
                   swapVars, vkLog, swapChainImageViews, exception, mainVars>>

\* what CreateInstance does with the layers available and the result of
\* vkCreateInstance: the creation calls it makes, the error it throws (""
\* for none) and the instance it leaves
CreateInstanceOutcome(available_layers, result) ==
    IF ENABLE_VALIDATION_LAYERS
       /\ ~CheckValidationLayerSupport(available_layers)
    THEN [calls |-> <<>>,
          exception |-> "validation layers requested, but not available!",
          instance |-> Null]
    ELSE [calls |-> <<Logged("vkCreateInstance", result)>>,
          exception |-> IF result # "VK_SUCCESS"
                        THEN "vkCreateInstance ERROR: failed to create instance!"
                        ELSE "",
          instance |-> IF result # "VK_SUCCESS" THEN Null ELSE Handle]

CreateInstance ==
    /\ pc = "CreateInstance"
    /\ \E available_layers \in LayerLists, result \in VkResults :
         LET outcome == CreateInstanceOutcome(available_layers, result)
         IN  /\ vkLog' = vkLog \o outcome.calls
             /\ instance' = outcome.instance
             /\ IF outcome.exception # ""
                THEN Throw(outcome.exception)
                ELSE pc' = "SetupDebugMessenger" /\ UNCHANGED exception
    /\ UNCHANGED <<call, devices, window, windowShouldClose, polled,
                   debugMessenger, surface, physicalDevice, deviceVars,
                   swapVars, swapChainImageViews, mainVars>>

\* SetupDebugMessenger going on when the messenger was not created
SetupDebugMessengerOutcome_FailureIgnored(result) ==
    IF ~ENABLE_VALIDATION_LAYERS
    THEN [calls |-> <<>>, exception |-> "", debugMessenger |-> Null]
    ELSE [calls |-> <<Logged("CreateDebugUtilsMessengerEXT", result)>>,
          exception |-> "",
          debugMessenger |-> IF result # "VK_SUCCESS" THEN Null ELSE Handle]

\* what SetupDebugMessenger does with the result of
\* CreateDebugUtilsMessengerEXT: the creation calls it makes, the error it
\* throws ("" for none) and the messenger it leaves
SetupDebugMessengerOutcome(result) ==
    IF ~ENABLE_VALIDATION_LAYERS
    THEN [calls |-> <<>>, exception |-> "", debugMessenger |-> Null]
    ELSE [calls |-> <<Logged("CreateDebugUtilsMessengerEXT", result)>>,
          exception |-> IF result # "VK_SUCCESS"
                        THEN "failed to set up debug messenger!" ELSE "",
          debugMessenger |-> IF result # "VK_SUCCESS" THEN Null ELSE Handle]

\* result: what CreateDebugUtilsMessengerEXT returns, which is
\* VK_ERROR_EXTENSION_NOT_PRESENT when the entry point is not found
SetupDebugMessenger ==
    /\ pc = "SetupDebugMessenger"
    /\ \E result \in VkResults \cup {"VK_ERROR_EXTENSION_NOT_PRESENT"} :
         LET outcome == SetupDebugMessengerOutcome(result)
         IN  /\ vkLog' = vkLog \o outcome.calls
             /\ debugMessenger' = outcome.debugMessenger
             /\ IF outcome.exception # ""
                THEN Throw(outcome.exception)
                ELSE pc' = "CreateSurface" /\ UNCHANGED exception
    /\ UNCHANGED <<call, devices, window, windowShouldClose, polled, instance,
                   surface, physicalDevice, deviceVars, swapVars,
                   swapChainImageViews, mainVars>>

\* glfwCreateWindowSurface fails on a null window
CreateSurface ==
    /\ pc = "CreateSurface"
    /\ \E result \in VkResults :
         LET reported == IF window = Null /\ result = "VK_SUCCESS"
                         THEN "VK_ERROR_INITIALIZATION_FAILED" ELSE result
         IN  /\ vkLog' = Append(vkLog,
                                Logged("glfwCreateWindowSurface", reported))
             /\ IF reported # "VK_SUCCESS"
                THEN /\ Throw("failed to create window surface!")
                     /\ UNCHANGED surface
                ELSE /\ surface' = Handle
                     /\ pc' = "PickPhysicalDevice"
                     /\ UNCHANGED exception
    /\ UNCHANGED <<call, devices, window, windowShouldClose, polled, instance,
                   debugMessenger, physicalDevice, deviceVars, swapVars,
                   swapChainImageViews, mainVars>>

\* the devices QuerySwapChainSupport is called on by the loop of
\* PickPhysicalDevice from device i (1-based) on, in order
RECURSIVE SupportQueries(_, _)
SupportQueries(ds, i) ==
    IF i > Len(ds) THEN <<>>
    ELSE (IF QueriesSwapChainSupport(ds[i]) THEN <<i>> ELSE <<>>)
         \o (IF IsDeviceSuitable(ds[i]) THEN <<>>
             ELSE SupportQueries(ds, i + 1))

\* what PickPhysicalDevice does with the devices enumerated: the device it
\* stores (0 for none), the error it throws ("" for none) and the devices
\* whose swapchain support it queried
PickPhysicalDeviceOutcome(ds) ==
    IF Len(ds) = 0
    THEN [physicalDevice |-> 0,
          exception |-> "failed to find GPUs with Vulkan support!",
          queries |-> <<>>]
    ELSE [physicalDevice |-> FirstSuitable(ds, 1),
          exception |-> IF FirstSuitable(ds, 1) = 0
                        THEN "failed to find a suitable GPU!" ELSE "",
          queries |-> SupportQueries(ds, 1)]

PickPhysicalDevice ==
    /\ pc = "PickPhysicalDevice"
    /\ \E ds \in DeviceLists :
         LET outcome == PickPhysicalDeviceOutcome(ds)
         IN  /\ devices' = ds
             /\ physicalDevice' = outcome.physicalDevice
             /\ IF outcome.exception # ""
                THEN Throw(outcome.exception)
                ELSE pc' = "CreateLogicalDevice" /\ UNCHANGED exception
    /\ UNCHANGED <<call, handles, windowShouldClose, polled, deviceVars,
                   swapVars, vkLog, swapChainImageViews, mainVars>>

\* the has_value test of CreateLogicalDevice and of CreateSwapChain, with
\* the present family left out
HasBothFamilies_GraphicsOnly(indices) == indices.graphicsFamily.has_value

\* the has_value test CreateLogicalDevice and CreateSwapChain make before
\* they read the two family values
HasBothFamilies(indices) ==
    indices.graphicsFamily.has_value /\ indices.presentFamily.has_value

\* the VkDeviceCreateInfo of CreateLogicalDevice: one queue from each
\* distinct family
DeviceCreateInfo(indices) ==
    [queueCreateInfos |->
        {[queueFamilyIndex |-> queue_family, queueCount |-> 1] :
            queue_family \in {indices.graphicsFamily.value,
                              indices.presentFamily.value}},
     enabledExtensionNames |-> DEVICE_EXTENSIONS,
     enabledLayerNames |->
        IF ENABLE_VALIDATION_LAYERS THEN VALIDATION_LAYERS ELSE <<>>]

\* the requests CreateLogicalDevice gets to hand to vkCreateDevice: none
\* when it throws on the indices
DeviceRequests(indices) ==
    IF HasBothFamilies(indices) THEN <<DeviceCreateInfo(indices)>> ELSE <<>>

\* what CreateLogicalDevice does with the indices it found and the result
\* of vkCreateDevice: the requests it makes, the error it throws ("" for
\* none) and the families it retrieves the two queues from
LogicalDeviceOutcome(indices, result) ==
    LET requests == DeviceRequests(indices)
    IN  [requests |-> requests,
         exception |->
            IF requests = <<>>
            THEN "Indices's graphics and present Families contain no value!"
            ELSE IF result # "VK_SUCCESS"
            THEN "failed to create logical device!"
            ELSE "",
         queues |->
            IF requests # <<>> /\ result = "VK_SUCCESS"
            THEN <<indices.graphicsFamily, indices.presentFamily>>
            ELSE <<>>]

CreateLogicalDevice ==
    /\ pc = "CreateLogicalDevice"
    /\ \E result \in VkResults :
         LET indices == FindQueueFamilies(devices[physicalDevice])
             outcome == LogicalDeviceOutcome(indices, result)
         IN  /\ vkLog' = vkLog \o [i \in DOMAIN outcome.requests |->
                                      Logged("vkCreateDevice", result)]
             /\ IF outcome.exception # ""
                THEN /\ Throw(outcome.exception)
                     /\ UNCHANGED deviceVars
                ELSE /\ device' = Handle
                     /\ graphicsQueue' = outcome.queues[1]
                     /\ presentQueue' = outcome.queues[2]
                     /\ pc' = "CreateSwapChain"
                     /\ UNCHANGED exception
    /\ UNCHANGED <<call, devices, handles, windowShouldClose, polled,
                   physicalDevice, swapVars, swapChainImageViews, mainVars>>

\* the request of CreateSwapChain with the two families always shared
SwapchainCreateInfo_AlwaysConcurrent(surface_format, present_mode, extent, image_count, indices) ==
    [surface |-> surface,
     minImageCount |-> image_count,
     imageFormat |-> surface_format.format,
     imageColorSpace |-> surface_format.colorSpace,
     imageExtent |-> extent,
     imageSharingMode |-> "VK_SHARING_MODE_CONCURRENT",
     queueFamilyIndices |->
        <<indices.graphicsFamily.value, indices.presentFamily.value>>,
     presentMode |-> present_mode,
     oldSwapchain |-> Null]

\* the request CreateSwapChain fills in from its selections
SwapchainCreateInfo(surface_format, present_mode, extent, image_count, indices) ==
    [surface |-> surface,
     minImageCount |-> image_count,
     imageFormat |-> surface_format.format,
     imageColorSpace |-> surface_format.colorSpace,
     imageExtent |-> extent,
     imageSharingMode |->
        IF indices.graphicsFamily # indices.presentFamily
        THEN "VK_SHARING_MODE_CONCURRENT" ELSE "VK_SHARING_MODE_EXCLUSIVE",
     queueFamilyIndices |->
        IF indices.graphicsFamily # indices.presentFamily
        THEN <<indices.graphicsFamily.value, indices.presentFamily.value>>
        ELSE <<>>,
     presentMode |-> present_mode,
     oldSwapchain |-> Null]

\* the requests CreateSwapChain gets to hand to vkCreateSwapchainKHR: none
\* when it throws on the indices
SwapChainRequests(surface_format, present_mode, extent, image_count, indices) ==
    IF HasBothFamilies(indices)
    THEN <<SwapchainCreateInfo(surface_format, present_mode, extent,
                               image_count, indices)>>
    ELSE <<>>

\* what CreateSwapChain does with its selections, the indices it found and
\* the result of vkCreateSwapchainKHR: the requests it makes and the error
\* it throws ("" for none)
SwapChainOutcome(surface_format, present_mode, extent, image_count, indices, result) ==
    LET requests == SwapChainRequests(surface_format, present_mode, extent,
                                      image_count, indices)
    IN  [requests |-> requests,
         exception |->
            IF requests = <<>>
            THEN "Indices's graphics and present Families contain no value!"
            ELSE IF result # "VK_SUCCESS"
            THEN "failed to create swap chain!"
            ELSE ""]

\* oob: what an out-of-bounds availableFormats[0] would yield; framebuffer:
\* what glfwGetFramebufferSize returns if asked; result: what
\* vkCreateSwapchainKHR returns; n: the image count vkGetSwapchainImagesKHR
\* then reports
CreateSwapChain ==
    /\ pc = "CreateSwapChain"
    /\ \E oob \in OutOfBoundsReads, framebuffer \in FramebufferSizes,
          result \in VkResults, n \in 1..MaxImages :
         LET swap_chain_support == QuerySwapChainSupport(devices[physicalDevice])
             surface_format ==
                 ChooseSwapSurfaceFormat(swap_chain_support.formats, oob)
             present_mode ==
                 ChooseSwapPresentMode(swap_chain_support.presentModes)
             extent ==
                 ChooseSwapExtent(swap_chain_support.capabilities, framebuffer)
             image_count == ImageCount(swap_chain_support.capabilities)
             indices == FindQueueFamilies(devices[physicalDevice])
             outcome == SwapChainOutcome(surface_format, present_mode, extent,
                                         image_count, indices, result)
         IN  IF surface_format = Crashed
             THEN /\ pc' = "crashed"
                  /\ exitStatus' = "SIGSEGV"
                  /\ UNCHANGED <<swapVars, vkLog, exception, stderr, destroyed>>
             ELSE
               /\ fbLog' = IF QueriesFramebuffer(swap_chain_support.capabilities)
                           THEN Append(fbLog, framebuffer) ELSE fbLog
               /\ create_info' = create_info \o outcome.requests
               /\ vkLog' = vkLog \o [i \in DOMAIN outcome.requests |->
                                        Logged("vkCreateSwapchainKHR", result)]
               /\ UNCHANGED mainVars
               /\ IF outcome.exception # ""
                  THEN /\ Throw(outcome.exception)
                       /\ UNCHANGED <<swapChain, swapChainImages,
                                      swapChainImageFormat, swapChainExtent>>
                  ELSE /\ swapChain' = Handle
                       /\ swapChainImages' = [i \in 1..n |-> i]
                       /\ swapChainImageFormat' = surface_format.format
                       /\ swapChainExtent' = extent
                       /\ pc' = "CreateImageViews"
                       /\ UNCHANGED exception
    /\ UNCHANGED <<call, devices, handles, windowShouldClose, polled,
                   physicalDevice, deviceVars, swapChainImageViews>>

\* the element resize() leaves where no view was created yet
NullView == [image |-> 0, format |-> "VK_FORMAT_UNDEFINED"]

\* the view made for swapChainImages[0] whatever image is asked for
ImageView_FirstImage(image, format) == [image |-> 1, format |-> format]

\* the view of an image with the format written into the source
ImageView_FixedFormat(image, format) ==
    [image |-> image, format |-> "VK_FORMAT_B8G8R8A8_SRGB"]

\* the view vkCreateImageView makes from the VkImageViewCreateInfo of
\* CreateImageViews
ImageView(image, format) == [image |-> image, format |-> format]

\* created: how many vkCreateImageView calls succeed before one fails with
\* error
CreateImageViews ==
    /\ pc = "CreateImageViews"
    /\ \E created \in 0..Len(swapChainImages), error \in VkErrors :
         /\ swapChainImageViews' =
               [i \in 1..Len(swapChainImages) |->
                   IF i <= created
                   THEN ImageView(swapChainImages[i], swapChainImageFormat)
                   ELSE NullView]
         /\ vkLog' = vkLog
                     \o [i \in 1..created |->
                            Logged("vkCreateImageView", "VK_SUCCESS")]
                     \o (IF created < Len(swapChainImages)
                         THEN <<Logged("vkCreateImageView", error)>>
                         ELSE <<>>)
         /\ IF created < Len(swapChainImages)
            THEN Throw("failed to create image views!")
            ELSE pc' = "MainLoop" /\ UNCHANGED exception
    /\ UNCHANGED <<call, devices, handles, windowShouldClose, polled,
                   physicalDevice, deviceVars, swapVars, mainVars>>

\* what one glfwPollEvents may deliver to the window
WindowEvents == {"nothing", "close", "resize", "refresh"}

\* an iteration that rebuilds the swapchain when the window was resized
PollEvents_RecreatesSwapChain ==
    /\ pc = "MainLoop"
    /\ ~windowShouldClose
    /\ \E event \in WindowEvents :
         /\ polled' = event
         /\ windowShouldClose' = (event = "close")
         /\ pc' = IF event = "resize" THEN "CreateSwapChain" ELSE pc
    /\ UNCHANGED <<call, devices, handles, physicalDevice, deviceVars,
                   swapVars, vkLog, swapChainImageViews, exception, mainVars>>

\* an iteration that stores the size of a resized window as the extent
PollEvents_StoresNewExtent ==
    /\ pc = "MainLoop"
    /\ ~windowShouldClose
    /\ \E event \in WindowEvents :
         /\ polled' = event
         /\ windowShouldClose' = (event = "close")
         /\ swapChainExtent' = IF event = "resize"
                               THEN [width |-> U32(1), height |-> U32(1)]
                               ELSE swapChainExtent
    /\ UNCHANGED <<call, pc, devices, handles, physicalDevice, deviceVars,
                   swapChain, swapChainImages, swapChainImageFormat,
                   create_info, fbLog, vkLog, swapChainImageViews, exception,
                   mainVars>>

\* one iteration of MainLoop: glfwPollEvents, which sets the close flag on a
\* close request; no callback is registered for any other event
PollEvents ==
    /\ pc = "MainLoop"
    /\ ~windowShouldClose
    /\ \E event \in WindowEvents :
         /\ polled' = event
         /\ windowShouldClose' = (event = "close")
    /\ UNCHANGED <<call, pc, devices, handles, physicalDevice, deviceVars,
                   swapVars, vkLog, swapChainImageViews, exception, mainVars>>

\* the loop test of MainLoop read the wrong way round
LeaveMainLoop_Inverted ==
    /\ pc = "MainLoop"
    /\ ~windowShouldClose
    /\ pc' = "CleanUp"
    /\ UNCHANGED <<call, app>>

LeaveMainLoop ==
    /\ pc = "MainLoop"
    /\ windowShouldClose
    /\ pc' = "CleanUp"
    /\ UNCHANGED <<call, app>>

Destroy(op, arg) == [op |-> op, arg |-> arg]

\* the calls of CleanUp with the device destroyed ahead of the swapchain
CleanUpCalls_DeviceBeforeSwapchain ==
    [i \in DOMAIN swapChainImageViews |-> Destroy("vkDestroyImageView", i)]
    \o <<Destroy("vkDestroyDevice", 0), Destroy("vkDestroySwapchainKHR", 0)>>
    \o (IF ENABLE_VALIDATION_LAYERS
        THEN <<Destroy("DestroyDebugUtilsMessengerEXT", 0)>> ELSE <<>>)
    \o <<Destroy("vkDestroySurfaceKHR", 0), Destroy("vkDestroyInstance", 0),
         Destroy("glfwDestroyWindow", 0), Destroy("glfwTerminate", 0)>>

\* the calls CleanUp makes, in order; a view is named by its index
CleanUpCalls ==
    [i \in DOMAIN swapChainImageViews |-> Destroy("vkDestroyImageView", i)]
    \o <<Destroy("vkDestroySwapchainKHR", 0), Destroy("vkDestroyDevice", 0)>>
    \o (IF ENABLE_VALIDATION_LAYERS
        THEN <<Destroy("DestroyDebugUtilsMessengerEXT", 0)>> ELSE <<>>)
    \o <<Destroy("vkDestroySurfaceKHR", 0), Destroy("vkDestroyInstance", 0),
         Destroy("glfwDestroyWindow", 0), Destroy("glfwTerminate", 0)>>

CleanUp ==
    /\ pc = "CleanUp"
    /\ destroyed' = CleanUpCalls
    /\ pc' = "returned"
    /\ UNCHANGED <<call, devices, handles, windowShouldClose, polled,
                   physicalDevice, deviceVars, swapVars, vkLog,
                   swapChainImageViews, exception, stderr, exitStatus>>

\* main: app.run() returned
MainReturn ==
    /\ pc = "returned"
    /\ exitStatus' = "EXIT_SUCCESS"
    /\ pc' = "exited"
    /\ UNCHANGED <<call, devices, handles, windowShouldClose, polled,
                   physicalDevice, deviceVars, swapVars, vkLog,
                   swapChainImageViews, exception, stderr, destroyed>>

\* main's handler tearing the application down before it reports
MainCatch_CleansUp ==
    /\ pc = "catch"
    /\ destroyed' = CleanUpCalls
    /\ stderr' = Append(stderr, exception)
    /\ exitStatus' = "EXIT_FAILURE"
    /\ pc' = "exited"
    /\ UNCHANGED <<call, devices, handles, windowShouldClose, polled,
                   physicalDevice, deviceVars, swapVars, vkLog,
                   swapChainImageViews, exception>>

\* main: catch (const std::exception& e)
MainCatch ==
    /\ pc = "catch"
    /\ stderr' = Append(stderr, exception)
    /\ exitStatus' = "EXIT_FAILURE"
    /\ pc' = "exited"
    /\ UNCHANGED <<call, devices, handles, windowShouldClose, polled,
                   physicalDevice, deviceVars, swapVars, vkLog,
                   swapChainImageViews, exception, destroyed>>

\* no selection is invoked apart from Run
NoCall == [fn |-> "none", args |-> <<>>, ret |-> <<>>, io |-> <<>>]

Init == call = NoCall /\ pc = "InitWindow" /\ Constructed

Next ==
    \/ InitWindow
    \/ CreateInstance
    \/ SetupDebugMessenger
    \/ CreateSurface
    \/ PickPhysicalDevice
    \/ CreateLogicalDevice
    \/ CreateSwapChain
    \/ CreateImageViews
    \/ PollEvents
    \/ LeaveMainLoop
    \/ CleanUp
    \/ MainReturn
    \/ MainCatch

Spec == Init /\ [][Next]_vars

(***************************************************************************)
(* SpecSelect: one invocation of one selection on inputs drawn from the    *)
(* sets below; call records the arguments and the value returned.          *)
(***************************************************************************)
FormatLists == SeqUpTo(SurfaceFormats, MaxFormats)

ModeLists == SeqUpTo(PresentModes, MaxModes)

CurrentAxis == {U32(600), U32(800), UINT32_MAX}

BoundAxis == {U32(1), U32(1024), U32(4096)}

FramebufferAxis == {-1, 0, 600, 800, 1080, 1920}

CountValues == {U32(0), U32(1), U32(2), U32(3), U32(4),
                [hi |-> Half - 1, lo |-> Half - 2], UINT32_MAX}

Extents(S) == [width : S, height : S]

\* VkSurfaceCapabilitiesKHR, with minImageExtent <= maxImageExtent on both
\* axes as the native API guarantees (std::clamp is undefined otherwise)
ExtentCapabilities ==
    {c \in [minImageCount : {U32(2)}, maxImageCount : {U32(0)},
            currentExtent : Extents(CurrentAxis),
            minImageExtent : Extents(BoundAxis),
            maxImageExtent : Extents(BoundAxis)] :
        /\ Le(c.minImageExtent.width, c.maxImageExtent.width)
        /\ Le(c.minImageExtent.height, c.maxImageExtent.height)}

CountCapabilities ==
    [minImageCount : CountValues, maxImageCount : CountValues,
     currentExtent : {[width |-> U32(800), height |-> U32(600)]},
     minImageExtent : {[width |-> U32(1), height |-> U32(1)]},
     maxImageExtent : {[width |-> U32(4096), height |-> U32(4096)]}]

CallChooseSwapSurfaceFormat ==
    /\ pc = "select"
    /\ call = NoCall
    /\ \E availableFormats \in FormatLists, oob \in OutOfBoundsReads :
         call' = [fn |-> "ChooseSwapSurfaceFormat",
                  args |-> [availableFormats |-> availableFormats],
                  ret |-> ChooseSwapSurfaceFormat(availableFormats, oob),
                  io |-> <<>>]
    /\ UNCHANGED <<pc, app>>

CallChooseSwapPresentMode ==
    /\ pc = "select"
    /\ call = NoCall
    /\ \E availablePresentModes \in ModeLists :
         call' = [fn |-> "ChooseSwapPresentMode",
                  args |-> [availablePresentModes |-> availablePresentModes],
                  ret |-> ChooseSwapPresentMode(availablePresentModes),
                  io |-> <<>>]
    /\ UNCHANGED <<pc, app>>

CallChooseSwapExtent ==
    /\ pc = "select"
    /\ call = NoCall
    /\ \E capabilities \in ExtentCapabilities,
          framebuffer \in Extents(FramebufferAxis) :
         call' = [fn |-> "ChooseSwapExtent",
                  args |-> [capabilities |-> capabilities,
                            framebuffer |-> framebuffer],
                  ret |-> ChooseSwapExtent(capabilities, framebuffer),
                  io |-> IF QueriesFramebuffer(capabilities)
                         THEN <<"glfwGetFramebufferSize">> ELSE <<>>]
    /\ UNCHANGED <<pc, app>>

CallImageCount ==
    /\ pc = "select"
    /\ call = NoCall
    /\ \E capabilities \in CountCapabilities :
         call' = [fn |-> "ImageCount",
                  args |-> [capabilities |-> capabilities],
                  ret |-> ImageCount(capabilities),
                  io |-> <<>>]
    /\ UNCHANGED <<pc, app>>

InitSelect == call = NoCall /\ pc = "select" /\ Constructed

NextSelect ==
    \/ CallChooseSwapSurfaceFormat
    \/ CallChooseSwapPresentMode
    \/ CallChooseSwapExtent
    \/ CallImageCount

SpecSelect == InitSelect /\ [][NextSelect]_vars

(***************************************************************************)
(* Properties of the selections (SpecSelect).                              *)
(***************************************************************************)
PreferredFormat == [format |-> "VK_FORMAT_B8G8R8A8_SRGB",
                    colorSpace |-> "VK_COLOR_SPACE_SRGB_NONLINEAR_KHR"]

HasPreferred(fs) == \E i \in DOMAIN fs : fs[i] = PreferredFormat

\* C1: for every non-empty list of formats holding an entry (B8G8R8A8_SRGB,
\* SRGB_NONLINEAR), ChooseSwapSurfaceFormat returns exactly that pair,
\* wherever the entry stands and whatever precedes it.
C1_PreferredFormatReturned ==
    (/\ call.fn = "ChooseSwapSurfaceFormat"
     /\ HasPreferred(call.args.availableFormats))
        => call.ret = PreferredFormat

\* C1 witness: the preferred entry last of three, behind two others
C1_PreferredLastOfThree ==
    /\ call.fn = "ChooseSwapSurfaceFormat"
    /\ Len(call.args.availableFormats) = 3
    /\ call.args.availableFormats[1] # PreferredFormat
    /\ call.args.availableFormats[2] # PreferredFormat
    /\ call.args.availableFormats[3] = PreferredFormat
    /\ call.ret = PreferredFormat

\* C2: for every non-empty list of formats in which no entry has both the
\* format B8G8R8A8_SRGB and the colour space SRGB_NONLINEAR, entries
\* matching one field alone included, ChooseSwapSurfaceFormat returns the
\* element at index 0.
C2_FirstFormatOtherwise ==
    (/\ call.fn = "ChooseSwapSurfaceFormat"
     /\ Len(call.args.availableFormats) > 0
     /\ ~HasPreferred(call.args.availableFormats))
        => call.ret = call.args.availableFormats[1]

\* C2 witness: no preferred entry, the second entry has the preferred
\* format and the third the preferred colour space, the first neither
C2_HalfMatchesSkipped ==
    /\ call.fn = "ChooseSwapSurfaceFormat"
    /\ Len(call.args.availableFormats) = 3
    /\ ~HasPreferred(call.args.availableFormats)
    /\ call.args.availableFormats[1].format # PreferredFormat.format
    /\ call.args.availableFormats[1].colorSpace # PreferredFormat.colorSpace
    /\ call.args.availableFormats[2].format = PreferredFormat.format
    /\ call.args.availableFormats[3].colorSpace = PreferredFormat.colorSpace
    /\ call.ret = call.args.availableFormats[1]

\* C3: for every list of present modes, ChooseSwapPresentMode returns
\* MAILBOX if MAILBOX occurs anywhere in the list, and FIFO otherwise.
C3_MailboxElseFifo ==
    call.fn = "ChooseSwapPresentMode"
        => call.ret =
             IF \E i \in DOMAIN call.args.availablePresentModes :
                   call.args.availablePresentModes[i]
                       = "VK_PRESENT_MODE_MAILBOX_KHR"
             THEN "VK_PRESENT_MODE_MAILBOX_KHR"
             ELSE "VK_PRESENT_MODE_FIFO_KHR"

\* C3 witness: a non-empty list with neither MAILBOX nor FIFO gives FIFO
C3_FifoThoughNotListed ==
    /\ call.fn = "ChooseSwapPresentMode"
    /\ Len(call.args.availablePresentModes) > 0
    /\ \A i \in DOMAIN call.args.availablePresentModes :
          call.args.availablePresentModes[i]
              \notin {"VK_PRESENT_MODE_MAILBOX_KHR", "VK_PRESENT_MODE_FIFO_KHR"}
    /\ call.ret = "VK_PRESENT_MODE_FIFO_KHR"

UndefinedExtent == [width |-> UINT32_MAX, height |-> UINT32_MAX]

\* C4: ChooseSwapExtent returns currentExtent unchanged for every
\* currentExtent other than the sentinel with UINT32_MAX on both axes,
\* values with UINT32_MAX on one axis included, whatever the framebuffer
\* size and the extent bounds.
C4_IdentityUnlessSentinel ==
    (/\ call.fn = "ChooseSwapExtent"
     /\ call.args.capabilities.currentExtent # UndefinedExtent)
        => call.ret = call.args.capabilities.currentExtent

\* v, a uint32_t, brought into [lo, hi]
InRange(v, lo, hi) == Le(lo, v) /\ Le(v, hi)

ClampedInto(r, v, lo, hi) ==
    /\ InRange(r, lo, hi)
    /\ InRange(v, lo, hi) => r = v
    /\ Lt(v, lo) => r = lo
    /\ Lt(hi, v) => r = hi

\* C5: with currentExtent the sentinel, ChooseSwapExtent returns a width in
\* [minImageExtent.width, maxImageExtent.width] and a height in
\* [minImageExtent.height, maxImageExtent.height], each the framebuffer
\* size on that axis (an int, converted to uint32_t, so that -1 becomes
\* 2^32 - 1) clamped on its own; framebuffer (1920, 1080) with bounds (1, 1)
\* and (1024, 1024) gives (1024, 1024).
C5_SentinelClampsFramebuffer ==
    (/\ call.fn = "ChooseSwapExtent"
     /\ call.args.capabilities.currentExtent = UndefinedExtent)
        => LET c == call.args.capabilities
               fb == call.args.framebuffer
           IN  /\ ClampedInto(call.ret.width, CastU32(fb.width),
                              c.minImageExtent.width, c.maxImageExtent.width)
               /\ ClampedInto(call.ret.height, CastU32(fb.height),
                              c.minImageExtent.height, c.maxImageExtent.height)
               /\ fb.width = -1 => call.ret.width = c.maxImageExtent.width
               /\ fb.height = -1 => call.ret.height = c.maxImageExtent.height
               /\ fb.width = 0 => call.ret.width = c.minImageExtent.width
               /\ (/\ fb = [width |-> 1920, height |-> 1080]
                   /\ c.minImageExtent = [width |-> U32(1), height |-> U32(1)]
                   /\ c.maxImageExtent
                        = [width |-> U32(1024), height |-> U32(1024)])
                    => call.ret = [width |-> U32(1024), height |-> U32(1024)]

\* C5 witness: the axes are clamped apart, the width down to its maximum
\* and the (negative) height down to a different maximum
C5_AxesClampedApart ==
    /\ call.fn = "ChooseSwapExtent"
    /\ call.args.capabilities.currentExtent = UndefinedExtent
    /\ call.args.framebuffer = [width |-> 1920, height |-> -1]
    /\ call.args.capabilities.minImageExtent
         = [width |-> U32(1), height |-> U32(1)]
    /\ call.args.capabilities.maxImageExtent
         = [width |-> U32(1024), height |-> U32(4096)]
    /\ call.ret = [width |-> U32(1024), height |-> U32(4096)]

\* a + 1 as a number: [hi |-> 2^16, lo |-> 0] stands for 2^32
MathAdd1(a) ==
    IF a.lo = Half - 1
    THEN [hi |-> a.hi + 1, lo |-> 0]
    ELSE [hi |-> a.hi, lo |-> a.lo + 1]

\* C6: the image count is minImageCount + 1 when maxImageCount = 0 or
\* minImageCount + 1 <= maxImageCount, and maxImageCount otherwise, for
\* every pair of uint32_t values, minImageCount + 1 being the sum of
\* numbers (2^32 for minImageCount = 2^32 - 1).
C6_ImageCountOfMathematicalSum ==
    call.fn = "ImageCount"
        => LET c == call.args.capabilities
               sum == MathAdd1(c.minImageCount)
           IN  call.ret = IF c.maxImageCount = U32(0) \/ Le(sum, c.maxImageCount)
                          THEN sum
                          ELSE c.maxImageCount

\* the selections other than ChooseSwapExtent
ListSelections == {"ChooseSwapSurfaceFormat", "ChooseSwapPresentMode",
                   "ImageCount"}

C8_ResultFixedByInputs ==
    /\ (/\ call.fn = "ChooseSwapSurfaceFormat"
        /\ Len(call.args.availableFormats) > 0)
          => call.ret = IF HasPreferred(call.args.availableFormats)
                        THEN PreferredFormat
                        ELSE call.args.availableFormats[1]
    /\ call.fn = "ChooseSwapPresentMode"
          => call.ret = IF "VK_PRESENT_MODE_MAILBOX_KHR"
                            \in {call.args.availablePresentModes[i] :
                                   i \in DOMAIN call.args.availablePresentModes}
                        THEN "VK_PRESENT_MODE_MAILBOX_KHR"
                        ELSE "VK_PRESENT_MODE_FIFO_KHR"
    /\ call.fn = "ChooseSwapExtent"
          => LET c == call.args.capabilities
                 fb == call.args.framebuffer
             IN  IF c.currentExtent.width # UINT32_MAX
                 THEN call.ret = c.currentExtent
                 ELSE /\ ClampedInto(call.ret.width, CastU32(fb.width),
                                     c.minImageExtent.width,
                                     c.maxImageExtent.width)
                      /\ ClampedInto(call.ret.height, CastU32(fb.height),
                                     c.minImageExtent.height,
                                     c.maxImageExtent.height)
    /\ call.fn = "ImageCount"
          => LET c == call.args.capabilities
                 sum == MathAdd1(c.minImageCount)
                 wrapped == IF sum.hi = Half THEN U32(0) ELSE sum
             IN  call.ret = IF c.maxImageCount # U32(0)
                               /\ Lt(c.maxImageCount, wrapped)
                            THEN c.maxImageCount
                            ELSE wrapped

\* what the selections read and touch
C8_SelectionEffects ==
    /\ call.fn \in ListSelections => call.io = <<>>
    /\ call.fn = "ChooseSwapExtent"
          => call.io = IF call.args.capabilities.currentExtent.width = UINT32_MAX
                       THEN <<"glfwGetFramebufferSize">>
                       ELSE <<>>
    /\ Constructed

PickedSupport == QuerySwapChainSupport(devices[physicalDevice])

\* C7: for capabilities {minImageCount 2, maxImageCount 0, currentExtent the
\* sentinel, minImageExtent (1,1), maxImageExtent (4096,4096)}, formats
\* [(R8G8B8A8, linear), (B8G8R8A8, sRGB-nonlinear)], modes [FIFO] and
\* framebuffer size (800,600), the request CreateSwapChain makes carries
\* format (B8G8R8A8, sRGB-nonlinear), present mode FIFO, extent (800,600)
\* and image count 3.
C7_EndToEndRequest ==
    (/\ Len(create_info) > 0
     /\ PickedSupport.capabilities
          = [minImageCount |-> U32(2), maxImageCount |-> U32(0),
             currentExtent |-> UndefinedExtent,
             minImageExtent |-> [width |-> U32(1), height |-> U32(1)],
             maxImageExtent |-> [width |-> U32(4096), height |-> U32(4096)]]
     /\ PickedSupport.formats
          = <<[format |-> "VK_FORMAT_R8G8B8A8_SRGB",
               colorSpace |-> "VK_COLOR_SPACE_EXTENDED_SRGB_LINEAR_EXT"],
              PreferredFormat>>
     /\ PickedSupport.presentModes = <<"VK_PRESENT_MODE_FIFO_KHR">>
     /\ fbLog = <<[width |-> 800, height |-> 600]>>)
        => /\ create_info[1].imageFormat = "VK_FORMAT_B8G8R8A8_SRGB"
           /\ create_info[1].imageColorSpace = "VK_COLOR_SPACE_SRGB_NONLINEAR_KHR"
           /\ create_info[1].presentMode = "VK_PRESENT_MODE_FIFO_KHR"
           /\ create_info[1].imageExtent = [width |-> U32(800), height |-> U32(600)]
           /\ create_info[1].minImageCount = U32(3)

\* C7 witness: the swapchain was created from exactly that request
C7_ExampleSwapchainCreated ==
    /\ swapChain = Handle
    /\ Len(create_info) = 1
    /\ PickedSupport = SupportUndefinedExtent
    /\ fbLog = <<[width |-> 800, height |-> 600]>>
    /\ create_info[1].imageFormat = "VK_FORMAT_B8G8R8A8_SRGB"
    /\ create_info[1].presentMode = "VK_PRESENT_MODE_FIFO_KHR"
    /\ create_info[1].imageExtent = [width |-> U32(800), height |-> U32(600)]
    /\ create_info[1].minImageCount = U32(3)

NoDeviceAdequate(ds) ==
    \A i \in DOMAIN ds :
        ds[i].support.formats = <<>> \/ ds[i].support.presentModes = <<>>

PickErrors == {"failed to find GPUs with Vulkan support!",
               "failed to find a suitable GPU!"}

C10_NothingCreated ==
    NoDeviceAdequate(devices)
        => /\ physicalDevice = 0
           /\ device = Null
           /\ swapChain = Null
           /\ create_info = <<>>
           /\ swapChainImages = <<>>
           /\ swapChainImageViews = <<>>
           /\ ~windowShouldClose
           /\ pc \notin {"CreateLogicalDevice", "CreateSwapChain",
                         "CreateImageViews", "MainLoop", "CleanUp",
                         "returned", "crashed"}
           /\ exitStatus \in {"running", "EXIT_FAILURE"}
           /\ pc = "exited"
                => /\ exitStatus = "EXIT_FAILURE"
                   /\ stderr = <<exception>>

\* C10: if every enumerated physical device reports zero surface formats or
\* zero present modes, PickPhysicalDevice throws; the logical device, the
\* swapchain and the image views are never created and the event loop is
\* never entered; main writes the diagnostic and returns EXIT_FAILURE.
C10_NoAdequateDeviceAborts ==
    /\ []C10_NothingCreated
    /\ [][(pc = "PickPhysicalDevice" /\ NoDeviceAdequate(devices'))
            => (pc' = "catch" /\ exception' \in PickErrors)]_vars
    /\ [][(pc = "catch" /\ exception \in PickErrors)
            => (/\ pc' = "exited"
                /\ exitStatus' = "EXIT_FAILURE"
                /\ stderr' = <<exception>>)]_vars

\* C10 witness: two devices, complete and with the swapchain extension, one
\* without formats and one without present modes; main has returned
\* EXIT_FAILURE after writing the diagnostic
C10_TwoInadequateDevicesExit ==
    /\ pc = "exited"
    /\ Len(devices) = 2
    /\ \A i \in 1..2 : /\ IsComplete(FindQueueFamilies(devices[i]))
                       /\ CheckDeviceExtensionSupport(devices[i])
    /\ devices[1].support.formats = <<>>
    /\ devices[2].support.formats # <<>>
    /\ devices[2].support.presentModes = <<>>
    /\ exitStatus = "EXIT_FAILURE"
    /\ stderr = <<"failed to find a suitable GPU!">>
    /\ device = Null

(***************************************************************************)
(* Properties of the Run sequence (Spec).                                  *)
(***************************************************************************)
\* the steps of Run in the order Run and InitVulkan call them; the check of
\* the validation layers is the first part of CreateInstance
RunOrder == <<"InitWindow", "CreateInstance", "SetupDebugMessenger",
              "CreateSurface", "PickPhysicalDevice", "CreateLogicalDevice",
              "CreateSwapChain", "CreateImageViews", "MainLoop", "CleanUp">>

AllViewsCreated ==
    /\ Len(swapChainImageViews) = Len(swapChainImages)
    /\ \A i \in DOMAIN swapChainImageViews : swapChainImageViews[i] # NullView

\* what a step leaves behind when it succeeded
Succeeded(step) ==
    CASE step = "InitWindow" -> window = Handle
      [] step = "CreateInstance" -> instance = Handle
      [] step = "SetupDebugMessenger" ->
            ENABLE_VALIDATION_LAYERS => debugMessenger = Handle
      [] step = "CreateSurface" -> surface = Handle
      [] step = "PickPhysicalDevice" -> physicalDevice # 0
      [] step = "CreateLogicalDevice" -> device = Handle
      [] step = "CreateSwapChain" -> swapChain = Handle
      [] step = "CreateImageViews" -> AllViewsCreated
      [] step = "MainLoop" -> windowShouldClose
      [] OTHER -> TRUE

\* C11: in every execution of Run the steps occur in the order window
\* creation, instance (with its validation layers), debug messenger,
\* surface, physical device selection, logical device, swapchain, image
\* views, event loop, cleanup, and whenever Run stands at a step every step
\* before it has succeeded.
C11_EachStepAfterPreviousSucceeded ==
    \A k \in DOMAIN RunOrder :
        pc = RunOrder[k] => \A j \in 1..(k - 1) : Succeeded(RunOrder[j])

\* the entries of vkLog for one native call
CallsOf(name) == {i \in DOMAIN vkLog : vkLog[i].call = name}

\* a step taken from the event loop on goes to no initialization step and
\* leaves the requests and the swapchain alone
C12_NothingRerunFromLoop ==
    pc \in {"MainLoop", "CleanUp", "returned"}
        => (/\ pc' \in {"MainLoop", "CleanUp", "returned", "exited"}
            /\ UNCHANGED <<create_info, fbLog, vkLog, swapChain,
                           swapChainImages>>)

\* C12: CreateSwapChain is executed at most once per Run, before the first
\* iteration of the event loop: Run comes to it from CreateLogicalDevice
\* alone, at most one request is ever given to vkCreateSwapchainKHR and the
\* framebuffer size is asked for at most once; from the event loop on, no
\* step (whatever event was polled, a resize included) goes back to an
\* initialization step, makes a request or replaces the swapchain.
C12_SwapChainCreatedOnceBeforeLoop ==
    /\ [](/\ Len(create_info) <= 1
          /\ Cardinality(CallsOf("vkCreateSwapchainKHR")) <= 1
          /\ Len(fbLog) <= 1)
    /\ [][pc' = "CreateSwapChain" => pc = "CreateLogicalDevice"]_vars
    /\ [][C12_NothingRerunFromLoop]_vars

\* C12 witness: a resize was polled in the event loop and the one request
\* made before the loop is still the only one
C12_ResizePolledOneRequest ==
    /\ pc = "MainLoop"
    /\ polled = "resize"
    /\ swapChain = Handle
    /\ Len(create_info) = 1
    /\ Cardinality(CallsOf("vkCreateSwapchainKHR")) = 1

\* the native creation calls that reported a result other than VK_SUCCESS
FailedCalls == {i \in DOMAIN vkLog : vkLog[i].result # "VK_SUCCESS"}

\* what() of the error each creation call's failure is answered with
FailureMessage(name) ==
    CASE name = "vkCreateInstance" ->
            "vkCreateInstance ERROR: failed to create instance!"
      [] name = "CreateDebugUtilsMessengerEXT" ->
            "failed to set up debug messenger!"
      [] name = "glfwCreateWindowSurface" -> "failed to create window surface!"
      [] name = "vkCreateDevice" -> "failed to create logical device!"
      [] name = "vkCreateSwapchainKHR" -> "failed to create swap chain!"
      [] name = "vkCreateImageView" -> "failed to create image views!"

\* the error is on its way out of Run or main has handled it; the event
\* loop was not entered and nothing was torn down
C13_Aborted ==
    /\ pc \in {"catch", "exited"}
    /\ exitStatus \in {"running", "EXIT_FAILURE"}
    /\ exception = FailureMessage(vkLog[Len(vkLog)].call)
    /\ polled = "none"
    /\ ~windowShouldClose
    /\ destroyed = <<>>

\* after a failed creation call no step of Run touches the application
C13_NothingAfterFailure ==
    FailedCalls # {}
        => UNCHANGED <<devices, handles, physicalDevice, deviceVars, swapVars,
                       vkLog, swapChainImageViews, polled, windowShouldClose>>

\* C13: if a native creation call during initialization (instance, debug
\* messenger, window surface, logical device, swapchain, any image view)
\* reports a result other than success, the step raises its error and the
\* error leaves Run: the failed call is the last creation call ever made
\* (no later step, no retry), the event loop is never entered, and main
\* ends with EXIT_FAILURE.
C13_FailedCreationAbortsRun ==
    /\ [](FailedCalls # {} => (FailedCalls = {Len(vkLog)} /\ C13_Aborted))
    /\ [][C13_NothingAfterFailure]_vars

\* C13 witness: the second vkCreateImageView failed after the first
\* succeeded, and main has returned EXIT_FAILURE
C13_SecondImageViewFailed ==
    /\ pc = "exited"
    /\ exitStatus = "EXIT_FAILURE"
    /\ Len(vkLog) >= 2
    /\ vkLog[Len(vkLog)].call = "vkCreateImageView"
    /\ vkLog[Len(vkLog)].result # "VK_SUCCESS"
    /\ vkLog[Len(vkLog) - 1] = Logged("vkCreateImageView", "VK_SUCCESS")
    /\ stderr = <<"failed to create image views!">>

(***************************************************************************)
(* The validation layers' callback.                                        *)
(***************************************************************************)
\* VkDebugUtilsMessageSeverityFlagBitsEXT: the bit of each severity
SeverityBit ==
    [s \in {"VK_DEBUG_UTILS_MESSAGE_SEVERITY_VERBOSE_BIT_EXT",
            "VK_DEBUG_UTILS_MESSAGE_SEVERITY_INFO_BIT_EXT",
            "VK_DEBUG_UTILS_MESSAGE_SEVERITY_WARNING_BIT_EXT",
            "VK_DEBUG_UTILS_MESSAGE_SEVERITY_ERROR_BIT_EXT"} |->
        CASE s = "VK_DEBUG_UTILS_MESSAGE_SEVERITY_VERBOSE_BIT_EXT" -> 1
          [] s = "VK_DEBUG_UTILS_MESSAGE_SEVERITY_INFO_BIT_EXT" -> 16
          [] s = "VK_DEBUG_UTILS_MESSAGE_SEVERITY_WARNING_BIT_EXT" -> 256
          [] s = "VK_DEBUG_UTILS_MESSAGE_SEVERITY_ERROR_BIT_EXT" -> 4096]

Effect(op, text) == [op |-> op, text |-> text]

\* DebugCallback throwing from the ERROR severity on
DebugCallback_ErrorsOnly(messageSeverity, pMessage) ==
    LET debug_msg == <<"validation layer: ", pMessage>>
    IN  <<Effect("std::cerr", debug_msg),
          Effect("OutputDebugStringA", debug_msg),
          IF SeverityBit[messageSeverity]
                >= SeverityBit["VK_DEBUG_UTILS_MESSAGE_SEVERITY_ERROR_BIT_EXT"]
          THEN Effect("throw", <<"validation layer ERROR: ", pMessage>>)
          ELSE Effect("return", <<"VK_FALSE">>)>>

\* what DebugCallback does, in order; a text is the sequence of the pieces
\* concatenated
DebugCallback(messageSeverity, pMessage) ==
    LET debug_msg == <<"validation layer: ", pMessage>>
    IN  <<Effect("std::cerr", debug_msg),
          Effect("OutputDebugStringA", debug_msg),
          IF SeverityBit[messageSeverity]
                >= SeverityBit["VK_DEBUG_UTILS_MESSAGE_SEVERITY_WARNING_BIT_EXT"]
          THEN Effect("throw", <<"validation layer ERROR: ", pMessage>>)
          ELSE Effect("return", <<"VK_FALSE">>)>>

(***************************************************************************)
(* SpecCalls: one invocation of CreateLogicalDevice's or CreateSwapChain's *)
(* handling of the queue family indices, on any pair of optional indices,  *)
(* or one invocation of DebugCallback.                                      *)
(***************************************************************************)
MaxFamilyIndex == 3     \* largest queue family index

OptionalFamilies == {Nullopt} \cup {Some(i) : i \in 0..MaxFamilyIndex}

\* QueueFamilyIndices
IndexPairs == [graphicsFamily : OptionalFamilies,
               presentFamily : OptionalFamilies]

Messages == {"vkCreateSwapchainKHR: invalid usage", "loader: layer found"}

MessageTypes == {"VK_DEBUG_UTILS_MESSAGE_TYPE_GENERAL_BIT_EXT",
                 "VK_DEBUG_UTILS_MESSAGE_TYPE_VALIDATION_BIT_EXT",
                 "VK_DEBUG_UTILS_MESSAGE_TYPE_PERFORMANCE_BIT_EXT"}

CallCreateLogicalDevice ==
    /\ pc = "call"
    /\ call = NoCall
    /\ \E indices \in IndexPairs, result \in VkResults :
         call' = [fn |-> "CreateLogicalDevice",
                  args |-> [indices |-> indices, result |-> result],
                  ret |-> LogicalDeviceOutcome(indices, result),
                  io |-> <<>>]
    /\ UNCHANGED <<pc, app>>

CallCreateSwapChain ==
    /\ pc = "call"
    /\ call = NoCall
    /\ \E indices \in IndexPairs, result \in VkResults,
          support \in {SupportUndefinedExtent, SupportFixedExtent},
          framebuffer \in FramebufferSizes :
         call' = [fn |-> "CreateSwapChain",
                  args |-> [indices |-> indices, result |-> result,
                            support |-> support, framebuffer |-> framebuffer],
                  ret |-> SwapChainOutcome(
                             ChooseSwapSurfaceFormat(support.formats,
                                                     support.formats[1]),
                             ChooseSwapPresentMode(support.presentModes),
                             ChooseSwapExtent(support.capabilities, framebuffer),
                             ImageCount(support.capabilities),
                             indices, result),
                  io |-> <<>>]
    /\ UNCHANGED <<pc, app>>

CallDebugCallback ==
    /\ pc = "call"
    /\ call = NoCall
    /\ \E messageSeverity \in DOMAIN SeverityBit,
          messageType \in MessageTypes, pMessage \in Messages :
         call' = [fn |-> "DebugCallback",
                  args |-> [messageSeverity |-> messageSeverity,
                            messageType |-> messageType,
                            pMessage |-> pMessage],
                  ret |-> DebugCallback(messageSeverity, pMessage),
                  io |-> <<>>]
    /\ UNCHANGED <<pc, app>>

MaxQueueFamilies == 3   \* most queue families a device reports

\* a queue family: whether it has the graphics bit, and whether
\* vkGetPhysicalDeviceSurfaceSupportKHR reports it can present
QueueFamilies == [graphics : BOOLEAN, present : BOOLEAN]

CallFindQueueFamilies ==
    /\ pc = "call"
    /\ call = NoCall
    /\ \E queue_families \in SeqUpTo(QueueFamilies, MaxQueueFamilies) :
         call' = [fn |-> "FindQueueFamilies",
                  args |-> [queue_families |-> queue_families],
                  ret |-> FindQueueFamilies(
                             [queue_families |-> queue_families]),
                  io |-> <<>>]
    /\ UNCHANGED <<pc, app>>

MaxLayers == 3          \* most instance layers available

LayerNames == {"VK_LAYER_KHRONOS_validation", "VK_LAYER_LUNARG_api_dump",
               "VK_LAYER_LUNARG_monitor"}

CallCreateInstance ==
    /\ pc = "call"
    /\ call = NoCall
    /\ \E available_layers \in SeqUpTo(LayerNames, MaxLayers),
          result \in VkResults :
         call' = [fn |-> "CreateInstance",
                  args |-> [available_layers |-> available_layers,
                            result |-> result],
                  ret |-> [supported |->
                              CheckValidationLayerSupport(available_layers),
                           outcome |->
                              CreateInstanceOutcome(available_layers, result)],
                  io |-> <<>>]
    /\ UNCHANGED <<pc, app>>

CallPickPhysicalDevice ==
    /\ pc = "call"
    /\ call = NoCall
    /\ \E ds \in DeviceLists :
         call' = [fn |-> "PickPhysicalDevice",
                  args |-> [devices |-> ds],
                  ret |-> [physicalDevice |->
                              PickPhysicalDeviceOutcome(ds).physicalDevice,
                           exception |->
                              PickPhysicalDeviceOutcome(ds).exception],
                  io |-> PickPhysicalDeviceOutcome(ds).queries]
    /\ UNCHANGED <<pc, app>>

InitCalls == call = NoCall /\ pc = "call" /\ Constructed

NextCalls ==
    \/ CallCreateLogicalDevice
    \/ CallCreateSwapChain
    \/ CallDebugCallback
    \/ CallPickPhysicalDevice
    \/ CallFindQueueFamilies
    \/ CallCreateInstance

SpecCalls == InitCalls /\ [][NextCalls]_vars

(***************************************************************************)
(* Properties of the calls (SpecCalls).                                    *)
(***************************************************************************)
NoIndicesMessage == "Indices's graphics and present Families contain no value!"

\* the two family values, read from indices that hold both
FamilyValues(indices) ==
    <<indices.graphicsFamily.value, indices.presentFamily.value>>

\* every family index in the requests and the queues is one of the two
\* values read
C14_UsesTheValuesRead ==
    LET values == FamilyValues(call.args.indices)
        request == call.ret.requests[1]
    IN  /\ Len(call.ret.requests) = 1
        /\ call.fn = "CreateLogicalDevice"
              => /\ {q.queueFamilyIndex : q \in request.queueCreateInfos}
                        = {values[1], values[2]}
                 /\ call.ret.queues \in
                        {<<>>, <<Some(values[1]), Some(values[2])>>}
        /\ call.fn = "CreateSwapChain"
              => request.queueFamilyIndices \in {<<>>, values}

\* C14: in CreateLogicalDevice and CreateSwapChain the graphics and present
\* family values are read only when both are present, and then every family
\* index the operation uses is one of the two; when either is absent the
\* operation throws "Indices's graphics and present Families contain no
\* value!" and makes no request for a device or a swapchain and retrieves no
\* queue.
C14_IndicesPresentBeforeUse ==
    call.fn \in {"CreateLogicalDevice", "CreateSwapChain"}
        => IF IsComplete(call.args.indices)
           THEN /\ call.ret.exception # NoIndicesMessage
                /\ C14_UsesTheValuesRead
           ELSE /\ call.ret.exception = NoIndicesMessage
                /\ call.ret.requests = <<>>
                /\ call.fn = "CreateLogicalDevice" => call.ret.queues = <<>>

\* C14 witness: CreateSwapChain on indices with a graphics family and no
\* present family threw and made no request
C14_PresentFamilyAbsent ==
    /\ call.fn = "CreateSwapChain"
    /\ call.args.indices.graphicsFamily = Some(1)
    /\ call.args.indices.presentFamily = Nullopt
    /\ call.args.result = "VK_SUCCESS"
    /\ call.ret.exception = NoIndicesMessage
    /\ call.ret.requests = <<>>

\* C15: DebugCallback always writes the message to the diagnostic output
\* first; what ends the call is a thrown error exactly when the severity is
\* WARNING or ERROR, and the return of VK_FALSE otherwise; nothing but
\* writes of the message comes before that.
C15_WritesThenThrowsFromWarning ==
    call.fn = "DebugCallback"
        => LET effects == call.ret
               written == <<"validation layer: ", call.args.pMessage>>
           IN  /\ Len(effects) >= 2
               /\ effects[1] = Effect("std::cerr", written)
               /\ \A i \in 1..(Len(effects) - 1) :
                     /\ effects[i].op \notin {"throw", "return"}
                     /\ effects[i].text = written
               /\ IF call.args.messageSeverity \in
                        {"VK_DEBUG_UTILS_MESSAGE_SEVERITY_WARNING_BIT_EXT",
                         "VK_DEBUG_UTILS_MESSAGE_SEVERITY_ERROR_BIT_EXT"}
                  THEN effects[Len(effects)].op = "throw"
                  ELSE effects[Len(effects)]
                          = Effect("return", <<"VK_FALSE">>)

\* C15 witness: a message of severity WARNING was written and then thrown
C15_WarningThrown ==
    /\ call.fn = "DebugCallback"
    /\ call.args.messageSeverity
          = "VK_DEBUG_UTILS_MESSAGE_SEVERITY_WARNING_BIT_EXT"
    /\ call.ret[1].op = "std::cerr"
    /\ call.ret[Len(call.ret)]
          = Effect("throw", <<"validation layer ERROR: ", call.args.pMessage>>)

\* a step taken in the event loop leaves every Vulkan object and what was
\* negotiated for the swapchain as it was, and makes no native call
C16_LoopStepLeavesVulkanAlone ==
    pc = "MainLoop"
        => UNCHANGED <<instance, debugMessenger, surface, physicalDevice,
                       device, graphicsQueue, presentQueue, swapChain,
                       swapChainImages, swapChainImageViews,
                       swapChainImageFormat, swapChainExtent, create_info,
                       fbLog, vkLog, destroyed>>

\* C16: the event loop only polls window events: throughout MainLoop the
\* instance, surface, physical and logical device, queues, swapchain,
\* images, image views and the stored format and extent stay unchanged, and
\* no native call is made.
C16_EventLoopOnlyPolls == [][C16_LoopStepLeavesVulkanAlone]_vars

\* C16 witness: the loop has polled a refresh of the window, and the views
\* and the stored extent are those of the initialization
C16_RefreshPolledNothingChanged ==
    /\ pc = "MainLoop"
    /\ polled = "refresh"
    /\ AllViewsCreated
    /\ swapChainExtent = create_info[1].imageExtent
    /\ vkLog[Len(vkLog)] = Logged("vkCreateImageView", "VK_SUCCESS")

\* the stored format and extent are those of the one request, and stay as
\* constructed while no swapchain was created
C17_StoredIsRequested ==
    IF swapChain = Handle
    THEN /\ Len(create_info) = 1
         /\ swapChainImageFormat = create_info[1].imageFormat
         /\ swapChainExtent = create_info[1].imageExtent
    ELSE /\ swapChainImageFormat = "VK_FORMAT_UNDEFINED"
         /\ swapChainExtent = NoExtent

\* every image view created has the stored format
C17_ViewsUseStoredFormat ==
    \A i \in DOMAIN swapChainImageViews :
        swapChainImageViews[i] # NullView
            => /\ swapChainImageViews[i].format = swapChainImageFormat
               /\ swapChainImageViews[i].image = swapChainImages[i]

\* the stored format and extent are written by the step that creates the
\* swapchain and by no other
C17_WrittenOnCreation ==
    (swapChainImageFormat' # swapChainImageFormat
     \/ swapChainExtent' # swapChainExtent)
        => (pc = "CreateSwapChain" /\ swapChain = Null /\ swapChain' = Handle)

\* C17: the image format and extent CreateSwapChain stores equal the format
\* and extent of the create request; they are written once, by the step
\* that creates the swapchain, and never modified afterwards; every image
\* view CreateImageViews creates uses exactly the stored format.
C17_NegotiatedConfigurationImmutable ==
    /\ [](C17_StoredIsRequested /\ C17_ViewsUseStoredFormat)
    /\ [][C17_WrittenOnCreation]_vars

\* C17 witness: Run ended normally with two views of the stored format
\* B8G8R8A8_UNORM, the format of the request
C17_TwoViewsOfStoredFormat ==
    /\ pc = "exited"
    /\ exitStatus = "EXIT_SUCCESS"
    /\ Len(swapChainImageViews) = 2
    /\ swapChainImageFormat = "VK_FORMAT_B8G8R8A8_UNORM"
    /\ create_info[1].imageFormat = "VK_FORMAT_B8G8R8A8_UNORM"
    /\ \A i \in 1..2 :
          swapChainImageViews[i].format = "VK_FORMAT_B8G8R8A8_UNORM"

\* C18: ChooseSwapExtent queries the framebuffer size only when
\* currentExtent is the undefined sentinel (UINT32_MAX on both axes); when
\* currentExtent is defined the result is fixed by currentExtent alone, the
\* same whatever the framebuffer size and the extent bounds are.
C18_FramebufferOnlyForSentinel ==
    call.fn = "ChooseSwapExtent"
        => /\ call.io # <<>>
                => call.args.capabilities.currentExtent = UndefinedExtent
           /\ call.args.capabilities.currentExtent # UndefinedExtent
                => call.ret = call.args.capabilities.currentExtent

\* the elements of a list
Reported(list) == {list[i] : i \in DOMAIN list}

SpecLive ==
    /\ Spec
    /\ WF_vars(LeaveMainLoop)
    /\ WF_vars(CleanUp)
    /\ WF_vars(MainReturn)

\* CleanUp ran to its last call
CleanedUp ==
    /\ destroyed # <<>>
    /\ destroyed[Len(destroyed)] = Destroy("glfwTerminate", 0)

\* while the close flag is clear a step in the event loop stays in it
C20_PollsWhileOpen ==
    (pc = "MainLoop" /\ ~windowShouldClose) => pc' = "MainLoop"

\* C20: a Run that reached the event loop ends if and only if the window's
\* close flag becomes set: while the flag is clear MainLoop keeps polling,
\* Run is past the loop only with the flag set, and once the flag is set
\* the loop exits, CleanUp runs to completion and main returns
\* EXIT_SUCCESS.
C20_RunEndsIffWindowClosed ==
    /\ []((pc \in {"CleanUp", "returned"} \/ exitStatus = "EXIT_SUCCESS")
             => windowShouldClose)
    /\ [][C20_PollsWhileOpen]_vars
    /\ ((pc = "MainLoop" /\ windowShouldClose)
           ~> (pc = "exited" /\ exitStatus = "EXIT_SUCCESS" /\ CleanedUp))

\* C20 witness: a close request was polled, the loop was left, CleanUp ran
\* to glfwTerminate and main returned EXIT_SUCCESS
C20_ClosedAndCleanedUp ==
    /\ pc = "exited"
    /\ exitStatus = "EXIT_SUCCESS"
    /\ polled = "close"
    /\ windowShouldClose
    /\ CleanedUp

(***************************************************************************)
(* Further properties of the selections (SpecSelect).                      *)
(***************************************************************************)
\* C21: for every minImageCount and maxImageCount with maxImageCount = 0 or
\* maxImageCount >= minImageCount, minImageCount = UINT32_MAX (whose
\* successor wraps) included, the image count requested is not below
\* minImageCount and, when maxImageCount is nonzero, not above
\* maxImageCount.
C21_ImageCountWithinBounds ==
    (/\ call.fn = "ImageCount"
     /\ \/ call.args.capabilities.maxImageCount = U32(0)
        \/ Le(call.args.capabilities.minImageCount,
              call.args.capabilities.maxImageCount))
        => /\ Le(call.args.capabilities.minImageCount, call.ret)
           /\ call.args.capabilities.maxImageCount # U32(0)
                => Le(call.ret, call.args.capabilities.maxImageCount)

(***************************************************************************)
(* Further properties of the calls (SpecCalls).                            *)
(***************************************************************************)
\* the conjunction PickPhysicalDevice selects by: a graphics family and a
\* present family exist, every required extension is available, and
\* neither the format list nor the mode list is empty
MeetsRequirements(d) ==
    /\ \E i \in DOMAIN d.queue_families : d.queue_families[i].graphics
    /\ \E i \in DOMAIN d.queue_families : d.queue_families[i].present
    /\ Reported(DEVICE_EXTENSIONS) \subseteq Reported(d.available_extensions)
    /\ d.support.formats # <<>>
    /\ d.support.presentModes # <<>>

\* C22: PickPhysicalDevice selects the first device in enumeration order
\* that has a graphics and a present queue family, every required
\* extension, and non-empty format and mode lists; it raises "failed to
\* find GPUs with Vulkan support!" when no device is enumerated and "failed
\* to find a suitable GPU!" when none meets the conjunction; it queries the
\* swapchain support of no device lacking a required extension.
C22_FirstSuitableDevicePicked ==
    call.fn = "PickPhysicalDevice"
        => LET ds == call.args.devices
               meeting == {i \in DOMAIN ds : MeetsRequirements(ds[i])}
           IN  /\ IF meeting = {}
                  THEN /\ call.ret.physicalDevice = 0
                       /\ call.ret.exception =
                             IF Len(ds) = 0
                             THEN "failed to find GPUs with Vulkan support!"
                             ELSE "failed to find a suitable GPU!"
                  ELSE /\ call.ret.physicalDevice \in meeting
                       /\ \A i \in meeting : call.ret.physicalDevice <= i
                       /\ call.ret.exception = ""
               /\ \A k \in DOMAIN call.io :
                     Reported(DEVICE_EXTENSIONS)
                         \subseteq Reported(ds[call.io[k]].available_extensions)

\* C22 witness: the first of two devices lacks the swapchain extension and
\* is not queried, the second meets the conjunction and is selected
C22_UnsupportedDeviceSkippedUnqueried ==
    /\ call.fn = "PickPhysicalDevice"
    /\ Len(call.args.devices) = 2
    /\ call.args.devices[1].available_extensions = <<>>
    /\ MeetsRequirements(call.args.devices[2])
    /\ call.ret.physicalDevice = 2
    /\ call.io = <<2>>

\* the greatest and the least element of a non-empty set of numbers
Greatest(S) == CHOOSE x \in S : \A y \in S : y <= x

Least(S) == CHOOSE x \in S : \A y \in S : x <= y

\* C23: FindQueueFamilies returns complete indices exactly when the device
\* has a family with the graphics bit and a family (possibly another) that
\* can present; a graphicsFamily value returned is the index of a
\* graphics-capable family and a presentFamily value that of a
\* present-capable one; the scan stops at the first index at which both
\* have been found, so each value is the last capable index up to there.
C23_QueueFamiliesFound ==
    call.fn = "FindQueueFamilies"
        => LET families == call.args.queue_families
               indices == call.ret
               G == {i \in 0..(Len(families) - 1) : families[i + 1].graphics}
               P == {i \in 0..(Len(families) - 1) : families[i + 1].present}
               both == {k \in 0..(Len(families) - 1) :
                           /\ \E g \in G : g <= k
                           /\ \E p \in P : p <= k}
           IN  /\ IsComplete(indices) <=> (G # {} /\ P # {})
               /\ indices.graphicsFamily.has_value <=> G # {}
               /\ indices.presentFamily.has_value <=> P # {}
               /\ indices.graphicsFamily.has_value
                     => indices.graphicsFamily.value \in G
               /\ indices.presentFamily.has_value
                     => indices.presentFamily.value \in P
               /\ both # {}
                     => /\ indices.graphicsFamily.value
                              = Greatest({g \in G : g <= Least(both)})
                        /\ indices.presentFamily.value
                              = Greatest({p \in P : p <= Least(both)})

\* C23 witness: graphics at index 0, presentation at index 1, and a third
\* family with both that the scan did not reach
C23_StoppedBeforeThirdFamily ==
    /\ call.fn = "FindQueueFamilies"
    /\ call.args.queue_families
          = <<[graphics |-> TRUE, present |-> FALSE],
              [graphics |-> FALSE, present |-> TRUE],
              [graphics |-> TRUE, present |-> TRUE]>>
    /\ call.ret = [graphicsFamily |-> Some(0), presentFamily |-> Some(1)]

\* C24: on indices holding both families, CreateSwapChain requests
\* CONCURRENT sharing with exactly the two indices (graphicsFamily,
\* presentFamily) when the two differ, and EXCLUSIVE sharing with no queue
\* family index when they are equal; CreateLogicalDevice requests one
\* queue from each distinct family among the two: one request when they
\* are equal, two when they differ.
C24_SharingAndQueuesByDistinctFamilies ==
    (/\ call.fn \in {"CreateLogicalDevice", "CreateSwapChain"}
     /\ IsComplete(call.args.indices))
        => LET g == call.args.indices.graphicsFamily.value
               p == call.args.indices.presentFamily.value
               request == call.ret.requests[1]
           IN  /\ call.fn = "CreateSwapChain"
                     => IF g # p
                        THEN /\ request.imageSharingMode
                                   = "VK_SHARING_MODE_CONCURRENT"
                             /\ request.queueFamilyIndices = <<g, p>>
                        ELSE /\ request.imageSharingMode
                                   = "VK_SHARING_MODE_EXCLUSIVE"
                             /\ request.queueFamilyIndices = <<>>
               /\ call.fn = "CreateLogicalDevice"
                     => /\ Cardinality(request.queueCreateInfos)
                              = IF g = p THEN 1 ELSE 2
                        /\ \A q \in request.queueCreateInfos :
                              q.queueCount = 1 /\ q.queueFamilyIndex \in {g, p}
                        /\ \A f \in {g, p} :
                              \E q \in request.queueCreateInfos :
                                  q.queueFamilyIndex = f

\* C24 witness: graphics and present both on family 2; the swapchain
\* request is EXCLUSIVE with no index
C24_SameFamilyExclusive ==
    /\ call.fn = "CreateSwapChain"
    /\ call.args.indices = [graphicsFamily |-> Some(2),
                            presentFamily |-> Some(2)]
    /\ Len(call.ret.requests) = 1
    /\ call.ret.requests[1].imageSharingMode = "VK_SHARING_MODE_EXCLUSIVE"
    /\ call.ret.requests[1].queueFamilyIndices = <<>>

(***************************************************************************)
(* Further properties of the Run sequence (Spec).                          *)
(***************************************************************************)
\* C25: after InitVulkan succeeded and until CleanUp begins, there are as
\* many image views as images the created swapchain reported (not the
\* count requested), and view i was created for image i.
C25_OneViewPerReportedImage ==
    pc \in {"MainLoop", "CleanUp"}
        => /\ Len(swapChainImageViews) = Len(swapChainImages)
           /\ \A i \in DOMAIN swapChainImages :
                 /\ swapChainImageViews[i] # NullView
                 /\ swapChainImageViews[i].image = swapChainImages[i]

\* C25 witness: three images were requested, the swapchain reported two,
\* and the event loop runs with two views
C25_TwoViewsForThreeRequested ==
    /\ pc = "MainLoop"
    /\ create_info[1].minImageCount = U32(3)
    /\ Len(swapChainImages) = 2
    /\ Len(swapChainImageViews) = 2
    /\ swapChainImageViews[2].image = swapChainImages[2]

\* the places of a destroy call in destroyed
Places(op) == {k \in DOMAIN destroyed : destroyed[k].op = op}

\* every call of the first kind comes before every call of the second
Before(op1, op2) ==
    \A i \in Places(op1) : \A j \in Places(op2) : i < j

\* the order CleanUp is to keep, each kind of call before the next
DestroyOrder == <<"vkDestroyImageView", "vkDestroySwapchainKHR",
                  "vkDestroyDevice", "DestroyDebugUtilsMessengerEXT",
                  "vkDestroySurfaceKHR", "vkDestroyInstance",
                  "glfwDestroyWindow", "glfwTerminate">>

\* C26: on a run whose initialization succeeded and whose event loop
\* ended, CleanUp destroys every created resource exactly once (each image
\* view, the swapchain, the device, the debug messenger, the surface, the
\* instance, the window, and GLFW itself), in the order: all image views,
\* swapchain, device, debug messenger, surface, instance, window, GLFW
\* termination.
C26_CleanUpInDependencyOrder ==
    (pc = "returned" \/ exitStatus = "EXIT_SUCCESS")
        => /\ \A v \in DOMAIN swapChainImageViews :
                 Cardinality({k \in Places("vkDestroyImageView") :
                                 destroyed[k].arg = v}) = 1
           /\ Cardinality(Places("vkDestroyImageView"))
                 = Len(swapChainImageViews)
           /\ \A j \in 2..Len(DestroyOrder) :
                 /\ Cardinality(Places(DestroyOrder[j])) = 1
                 /\ Before(DestroyOrder[j - 1], DestroyOrder[j])
           /\ \A k \in DOMAIN destroyed :
                 \E j \in DOMAIN DestroyOrder : destroyed[k].op = DestroyOrder[j]

\* C26 witness: Run returned after destroying two image views and then the
\* seven other resources
C26_TwoViewsThenTheRest ==
    /\ pc = "returned"
    /\ Len(swapChainImageViews) = 2
    /\ Len(destroyed) = 9
    /\ destroyed[2] = Destroy("vkDestroyImageView", 2)
    /\ destroyed[3] = Destroy("vkDestroySwapchainKHR", 0)
    /\ destroyed[9] = Destroy("glfwTerminate", 0)

\* once an error is raised no step destroys or resets what was created
C27_NothingReleasedAfterError ==
    exception # ""
        => UNCHANGED <<handles, deviceVars, swapChain, swapChainImages,
                       swapChainImageViews, destroyed>>

\* C27: if an initialization step raises an error, Run propagates it to
\* main without executing MainLoop or CleanUp: no event is polled and no
\* destroy call is ever issued for the window, instance, debug messenger,
\* surface, device, swapchain or image views created before the failure,
\* the views 0..i-1 included when creating view i fails.
C27_ErrorSkipsLoopAndCleanUp ==
    /\ [](exception # ""
             => /\ pc \in {"catch", "exited"}
                /\ exitStatus \in {"running", "EXIT_FAILURE"}
                /\ polled = "none"
                /\ destroyed = <<>>)
    /\ [][C27_NothingReleasedAfterError]_vars

\* C27 witness: the second image view failed; main has exited with the
\* window, instance, messenger, surface, device, swapchain and first view
\* still created and nothing destroyed
C27_FirstViewLeftUndestroyed ==
    /\ pc = "exited"
    /\ exception = "failed to create image views!"
    /\ window = Handle
    /\ instance = Handle
    /\ debugMessenger = Handle
    /\ surface = Handle
    /\ device = Handle
    /\ swapChain = Handle
    /\ Len(swapChainImageViews) = 2
    /\ swapChainImageViews[1] # NullView
    /\ swapChainImageViews[2] = NullView
    /\ destroyed = <<>>

\* the debug messenger was created by SetupDebugMessenger
MessengerCreated ==
    /\ ENABLE_VALIDATION_LAYERS
    /\ debugMessenger = Handle
    /\ CallsOf("CreateDebugUtilsMessengerEXT") # {}
    /\ \A i \in CallsOf("CreateDebugUtilsMessengerEXT") :
          vkLog[i].result = "VK_SUCCESS"

\* C28: CleanUp destroys the debug messenger if and only if
\* SetupDebugMessenger created it: a messenger exists only when the
\* validation layers flag is on and the creation call succeeded, with the
\* flag off no creation call is made, a failed creation (the entry point
\* not being found included) aborts startup so that CleanUp never runs, and
\* whenever CleanUp ran it destroyed the messenger exactly when one was
\* created.
C28_MessengerDestroyedIffCreated ==
    /\ debugMessenger = Handle => MessengerCreated
    /\ ~ENABLE_VALIDATION_LAYERS => CallsOf("CreateDebugUtilsMessengerEXT") = {}
    /\ (\E i \in CallsOf("CreateDebugUtilsMessengerEXT") :
           vkLog[i].result # "VK_SUCCESS")
          => /\ debugMessenger = Null
             /\ pc \in {"catch", "exited"}
             /\ destroyed = <<>>
    /\ destroyed # <<>>
          => (Places("DestroyDebugUtilsMessengerEXT") # {} <=> MessengerCreated)
    /\ destroyed = <<>> => Places("DestroyDebugUtilsMessengerEXT") = {}

\* C28 witness: the create entry point was not found; startup was aborted
\* and no messenger was created or destroyed
C28_EntryPointMissingAborts ==
    /\ pc = "exited"
    /\ vkLog # <<>>
    /\ vkLog[Len(vkLog)] = Logged("CreateDebugUtilsMessengerEXT",
                                  "VK_ERROR_EXTENSION_NOT_PRESENT")
    /\ exception = "failed to set up debug messenger!"
    /\ debugMessenger = Null
    /\ destroyed = <<>>

\* C29: CheckValidationLayerSupport returns true exactly when every
\* requested validation layer name occurs among the available instance
\* layers; with the validation layers enabled and the check false,
\* CreateInstance throws "validation layers requested, but not available!"
\* without calling vkCreateInstance, and no instance exists afterwards;
\* otherwise it calls vkCreateInstance once.
C29_MissingLayerStopsCreateInstance ==
    call.fn = "CreateInstance"
        => /\ call.ret.supported
                <=> Reported(VALIDATION_LAYERS)
                       \subseteq Reported(call.args.available_layers)
           /\ IF ENABLE_VALIDATION_LAYERS /\ ~call.ret.supported
              THEN /\ call.ret.outcome.exception
                         = "validation layers requested, but not available!"
                   /\ call.ret.outcome.calls = <<>>
                   /\ call.ret.outcome.instance = Null
              ELSE call.ret.outcome.calls
                      = <<Logged("vkCreateInstance", call.args.result)>>

\* C29 witness: two layers are available, neither the requested one, and
\* vkCreateInstance would have succeeded; CreateInstance threw without
\* calling it
C29_OtherLayersOnly ==
    /\ call.fn = "CreateInstance"
    /\ call.args.available_layers
          = <<"VK_LAYER_LUNARG_api_dump", "VK_LAYER_LUNARG_monitor">>
    /\ call.args.result = "VK_SUCCESS"
    /\ ~call.ret.supported
    /\ call.ret.outcome.calls = <<>>
    /\ call.ret.outcome.instance = Null

====
